---------------------------- MODULE Spec2Model ----------------------------
(***************************************************************************)
(* A model of paradox_savedata/parser/parser.py: the scalar coercer        *)
(* (_parse_value), the block parser (_parse_block) with its list/mapping   *)
(* disambiguation, the SaveData tree model (get, data, assignment to a key *)
(* of a node or of the root) and the serializer                            *)
(* (save, _write_data, _write_key_value, _format_value).                   *)
(*                                                                         *)
(* A Python str is a sequence of one-character strings.  A value of the    *)
(* tree is a record tagged by t:                                           *)
(*   [t |-> "bool", v]   [t |-> "int", v]   [t |-> "str", v]               *)
(*   [t |-> "float", neg, sig, exp]  the number (+/-) 0.sig * 10^exp, sig  *)
(*        a sequence of digits 0..9 without leading or trailing zero       *)
(*   [t |-> "dict", items]  a dict: the (k, v) pairs in insertion order    *)
(*   [t |-> "node", items]  a SaveDataNode wrapping such a dict            *)
(*   [t |-> "list", items]  a list of values                               *)
(***************************************************************************)
EXTENDS Integers, Sequences, FiniteSets, TLC

VARIABLES
    pc,            \* where the caller is: "idle", "parse", "done", "coerce"
    data,          \* SaveData._data of the caller's object, or NoData
    file,          \* the text of the save file, or NoFile
    lines,         \* _parse_block: lines
    i,             \* _parse_block: i (number of lines consumed)
    brace_count,   \* _parse_block: brace_count
    in_block,      \* _parse_block: in_block
    current_key,   \* _parse_block: current_key
    value_buffer,  \* _parse_block: value_buffer
    result,        \* _parse_block: result
    stopped,       \* _parse_block: the loop was left by break
    stack,         \* _parse_block: the locals of the calls that wait for the
                   \* running call to return, the root call first
    parsed,        \* the SaveData returned by parse_save_file, or NoData
    ret,           \* the outcome of the last get / set / _parse_value call
    attrs,         \* the instance attributes of the SaveData object other
                   \* than _data, as a dict
    sets           \* the number of assignments the caller has made

vars == <<pc, data, file, lines, i, brace_count, in_block, current_key,
          value_buffer, result, stopped, stack, parsed, ret, attrs, sets>>

-----------------------------------------------------------------------------
(* Characters and the str methods the parser uses.                         *)

DigitChars == <<"0", "1", "2", "3", "4", "5", "6", "7", "8", "9">>
Digit == {DigitChars[n] : n \in 1..10}
DigitVal(c) == (CHOOSE n \in 1..10 : DigitChars[n] = c) - 1

\* str.isspace / the regex class \s, on the characters of the model
WS == {" ", "\t", "\n"}

UpperChars == <<"A","B","C","D","E","F","G","H","I","J","K","L","M",
                "N","O","P","Q","R","S","T","U","V","W","X","Y","Z">>
LowerChars == <<"a","b","c","d","e","f","g","h","i","j","k","l","m",
                "n","o","p","q","r","s","t","u","v","w","x","y","z">>

\* str.lower()
LowerChar(c) ==
    IF \E n \in 1..26 : UpperChars[n] = c
    THEN LowerChars[CHOOSE n \in 1..26 : UpperChars[n] = c]
    ELSE c
Lower(s) == [n \in 1..Len(s) |-> LowerChar(s[n])]

\* c in s
Contains(s, c) == \E n \in 1..Len(s) : s[n] = c

\* s.count(c)
Count(s, c) == Cardinality({n \in 1..Len(s) : s[n] = c})

\* s.find(c) + 1: the first position of c in s, 0 when absent
Find(s, c) ==
    IF Contains(s, c)
    THEN CHOOSE n \in 1..Len(s) : s[n] = c /\ \A m \in 1..(n-1) : s[m] # c
    ELSE 0

StartsWith(s, c) == Len(s) > 0 /\ s[1] = c
EndsWith(s, c) == Len(s) > 0 /\ s[Len(s)] = c

\* s.strip(chars): drop the leading and trailing characters that are in cs
StripSet(s, cs) ==
    LET keep == {n \in 1..Len(s) : s[n] \notin cs}
    IN  IF keep = {} THEN <<>>
        ELSE SubSeq(s, CHOOSE n \in keep : \A m \in keep : n <= m,
                       CHOOSE n \in keep : \A m \in keep : n >= m)

\* s.strip()
Strip(s) == StripSet(s, WS)

\* sep.join(parts)
RECURSIVE Join(_, _)
Join(parts, sep) ==
    IF Len(parts) = 0 THEN <<>>
    ELSE IF Len(parts) = 1 THEN parts[1]
    ELSE parts[1] \o sep \o Join(Tail(parts), sep)

\* s.split(c): the pieces of s between the occurrences of c
RECURSIVE Split(_, _)
Split(s, c) ==
    IF Find(s, c) = 0 THEN <<s>>
    ELSE <<SubSeq(s, 1, Find(s, c) - 1)>>
         \o Split(SubSeq(s, Find(s, c) + 1, Len(s)), c)

\* the end (exclusive) of the longest run of characters of cs starting at p
RECURSIVE RunEnd(_, _, _)
RunEnd(s, p, cs) ==
    IF p <= Len(s) /\ s[p] \in cs THEN RunEnd(s, p + 1, cs) ELSE p

\* as RunEnd, for the characters not in cs
RECURSIVE RunEndNot(_, _, _)
RunEndNot(s, p, cs) ==
    IF p <= Len(s) /\ s[p] \notin cs THEN RunEndNot(s, p + 1, cs) ELSE p

-----------------------------------------------------------------------------
(* Values.                                                                 *)

NoData == [t |-> "none"]
NoFile == <<"<nofile>">>
NoKey == <<"<None>">>

Bool(b) == [t |-> "bool", v |-> b]
Int_(n) == [t |-> "int", v |-> n]
String(s) == [t |-> "str", v |-> s]
Float(neg, sig, exp) == [t |-> "float", neg |-> neg, sig |-> sig, exp |-> exp]
Dict(items) == [t |-> "dict", items |-> items]
Node(items) == [t |-> "node", items |-> items]
List(items) == [t |-> "list", items |-> items]
Item(k, v) == [k |-> k, v |-> v]

IsMapping(x) == x.t \in {"dict", "node"}
IsScalar(x) == x.t \in {"bool", "int", "float", "str"}

\* key in d
HasKey(d, k) == \E n \in 1..Len(d.items) : d.items[n].k = k

\* d[key], for a key of d
Lookup(d, k) == d.items[CHOOSE n \in 1..Len(d.items) : d.items[n].k = k].v

\* DictSet with the bug of a map that moves a reassigned key to the end
DictSet_move_to_end(d, k, v) ==
    [d EXCEPT !.items =
        Append(SelectSeq(d.items, LAMBDA e : e.k # k), Item(k, v))]

\* d[key] = value on a dict: an existing key keeps its position
DictSet(d, k, v) ==
    IF HasKey(d, k)
    THEN [d EXCEPT !.items =
            [n \in 1..Len(d.items) |->
                IF d.items[n].k = k THEN Item(k, v) ELSE d.items[n]]]
    ELSE [d EXCEPT !.items = Append(d.items, Item(k, v))]

-----------------------------------------------------------------------------
(* int(str), float(str), str(int), str(float) of Python.                   *)

IsDigitChar(c) == c \in Digit
DigitsOf(s) == SelectSeq(s, IsDigitChar)

\* a "digitpart": decimal digits, with single underscores between digits
IsDigitPart(s) ==
    /\ Len(s) > 0
    /\ s[1] \in Digit
    /\ s[Len(s)] \in Digit
    /\ \A n \in 1..Len(s) : s[n] \in Digit \cup {"_"}
    /\ \A n \in 1..(Len(s) - 1) : ~(s[n] = "_" /\ s[n + 1] = "_")

RECURSIVE DecValue(_)
DecValue(ds) ==
    IF Len(ds) = 0 THEN 0
    ELSE 10 * DecValue(SubSeq(ds, 1, Len(ds) - 1)) + DigitVal(ds[Len(ds)])

Unsigned(s) == IF Len(s) > 0 /\ s[1] \in {"+", "-"} THEN Tail(s) ELSE s
IsNeg(s) == Len(s) > 0 /\ s[1] = "-"

\* int(s) does not raise ValueError: whitespace around an optionally signed
\* digitpart
IntOk(s) == IsDigitPart(Unsigned(Strip(s)))
IntVal(s) ==
    LET v == DecValue(DigitsOf(Unsigned(Strip(s))))
    IN  IF IsNeg(Strip(s)) THEN 0 - v ELSE v

\* the parts of a float literal: sign, mantissa "ip.fp", optional exponent.
\* float() also reads inf, nan and infinity; they hold no "." and
\* _parse_value calls float() only on a str that holds one.
FloatBody(s) == Unsigned(Strip(s))
FloatEPos(s) ==
    LET u == FloatBody(s)
        e == {n \in 1..Len(u) : u[n] \in {"e", "E"}}
    IN  IF e = {} THEN 0 ELSE CHOOSE n \in e : \A m \in e : n <= m
FloatMant(s) ==
    IF FloatEPos(s) = 0 THEN FloatBody(s)
    ELSE SubSeq(FloatBody(s), 1, FloatEPos(s) - 1)
FloatExpo(s) == SubSeq(FloatBody(s), FloatEPos(s) + 1, Len(FloatBody(s)))
FloatIP(s) ==
    LET m == FloatMant(s)
    IN  IF Find(m, ".") = 0 THEN m ELSE SubSeq(m, 1, Find(m, ".") - 1)
FloatFP(s) ==
    LET m == FloatMant(s)
    IN  IF Find(m, ".") = 0 THEN <<>> ELSE SubSeq(m, Find(m, ".") + 1, Len(m))

\* float(s) does not raise ValueError
FloatOk(s) ==
    /\ FloatIP(s) = <<>> \/ IsDigitPart(FloatIP(s))
    /\ FloatFP(s) = <<>> \/ IsDigitPart(FloatFP(s))
    /\ ~(FloatIP(s) = <<>> /\ FloatFP(s) = <<>>)
    /\ FloatEPos(s) = 0 \/ IsDigitPart(Unsigned(FloatExpo(s)))

\* the digits ds with the decimal point before them and exponent e, as
\* 0.sig * 10^exp with sig free of leading and trailing zeros
RECURSIVE Normalize(_, _, _)
Normalize(neg, ds, e) ==
    IF Len(ds) = 0 THEN Float(neg, <<>>, 0)
    ELSE IF ds[1] = 0 THEN Normalize(neg, Tail(ds), e - 1)
    ELSE IF ds[Len(ds)] = 0 THEN Normalize(neg, SubSeq(ds, 1, Len(ds) - 1), e)
    ELSE Float(neg, ds, e)

\* float(s), for FloatOk(s); the literals of the model stay within the
\* 15 significant digits and the exponent range a double holds exactly
FloatVal(s) ==
    LET ip == DigitsOf(FloatIP(s))
        fp == DigitsOf(FloatFP(s))
        m  == ip \o fp
        e  == IF FloatEPos(s) = 0 THEN 0 ELSE IntVal(FloatExpo(s))
    IN  Normalize(IsNeg(Strip(s)), [n \in 1..Len(m) |-> DigitVal(m[n])],
                  Len(ip) + e)

\* str(n) for a non-negative int
RECURSIVE NatStr(_)
NatStr(n) ==
    IF n < 10 THEN <<DigitChars[n + 1]>>
    ELSE NatStr(n \div 10) \o <<DigitChars[(n % 10) + 1]>>

\* str(n) for an int
IntStr(n) == IF n < 0 THEN <<"-">> \o NatStr(0 - n) ELSE NatStr(n)

Zeros(n) == [m \in 1..n |-> "0"]
SigStr(sig) == [n \in 1..Len(sig) |-> DigitChars[sig[n] + 1]]

\* str(x) for a float: repr's shortest digits, positional when the decimal
\* point position is in -3..16, otherwise with an exponent of two digits
FloatStr(x) ==
    LET d    == SigStr(x.sig)
        sign == IF x.neg THEN <<"-">> ELSE <<>>
        e1   == x.exp - 1
    IN  sign \o
        (IF Len(d) = 0 THEN <<"0", ".", "0">>
         ELSE IF x.exp > 16 \/ x.exp < -3
         THEN <<d[1]>> \o (IF Len(d) > 1 THEN <<".">> \o Tail(d) ELSE <<>>)
              \o <<"e">> \o (IF e1 < 0 THEN <<"-">> ELSE <<"+">>)
              \o (IF e1 > -10 /\ e1 < 10 THEN <<"0">> ELSE <<>>)
              \o NatStr(IF e1 < 0 THEN 0 - e1 ELSE e1)
         ELSE IF x.exp <= 0 THEN <<"0", ".">> \o Zeros(0 - x.exp) \o d
         ELSE IF x.exp >= Len(d) THEN d \o Zeros(x.exp - Len(d)) \o <<".", "0">>
         ELSE SubSeq(d, 1, x.exp) \o <<".">> \o SubSeq(d, x.exp + 1, Len(d)))

-----------------------------------------------------------------------------
(* _parse_value and _format_value.                                         *)

\* _parse_value(value_str)
parse_value(value_str) ==
    LET s == StripSet(value_str, {"\""})
    IN  IF Contains(s, ".") /\ FloatOk(s) THEN FloatVal(s)
        ELSE IF ~Contains(s, ".") /\ IntOk(s) THEN Int_(IntVal(s))
        ELSE IF Lower(s) = <<"y", "e", "s">> THEN Bool(TRUE)
        ELSE IF Lower(s) = <<"n", "o">> THEN Bool(FALSE)
        ELSE String(s)

\* NeedsQuote with the bug of a character class without "="
NeedsQuote_no_equals(value) ==
    \E n \in 1..Len(value) : value[n] \in WS \cup {"{", "}"}

\* re.search(r'[\s{}=]', value)
NeedsQuote(value) == \E n \in 1..Len(value) : value[n] \in WS \cup {"{", "}", "="}

\* SaveData._format_value(value)
format_value(value) ==
    IF value.t = "bool" THEN (IF value.v THEN <<"y", "e", "s">> ELSE <<"n", "o">>)
    ELSE IF value.t = "str"
    THEN (IF NeedsQuote(value.v) \/ Len(value.v) = 0
          THEN <<"\"">> \o value.v \o <<"\"">>
          ELSE value.v)
    ELSE IF value.t = "int" THEN IntStr(value.v)
    ELSE FloatStr(value)

-----------------------------------------------------------------------------
(* The tree model: SaveData, SaveDataNode.                                 *)

\* SaveDataNode(data): the dict values become SaveDataNodes, at every depth,
\* and so do the dicts that are elements of a list value
RECURSIVE SaveDataNode(_)
SaveDataNode(d) ==
    Node([n \in 1..Len(d.items) |->
            LET value == d.items[n].v
            IN  Item(d.items[n].k,
                     IF value.t = "dict" THEN SaveDataNode(value)
                     ELSE IF value.t = "list"
                     THEN List([m \in 1..Len(value.items) |->
                                   IF value.items[m].t = "dict"
                                   THEN SaveDataNode(value.items[m])
                                   ELSE value.items[m]])
                     ELSE value)])

\* SaveData(data)._data: the same conversion, _data itself staying a dict
SaveData(d) == Dict(SaveDataNode(d).items)

\* SaveData._convert_to_raw(obj)
RECURSIVE convert_to_raw(_)
convert_to_raw(obj) ==
    IF obj.t \in {"node", "dict"}
    THEN Dict([n \in 1..Len(obj.items) |->
                 Item(obj.items[n].k, convert_to_raw(obj.items[n].v))])
    ELSE IF obj.t = "list"
    THEN List([n \in 1..Len(obj.items) |-> convert_to_raw(obj.items[n])])
    ELSE obj

\* get_walk with the bug of a walk without the isinstance tests: "part in
\* current" on a scalar raises TypeError
RECURSIVE get_walk_unguarded(_, _, _)
get_walk_unguarded(current, parts, default) ==
    IF Len(parts) = 0 THEN current
    ELSE IF IsScalar(current) THEN [t |-> "TypeError"]
    ELSE IF IsMapping(current) /\ HasKey(current, parts[1])
    THEN get_walk_unguarded(Lookup(current, parts[1]), Tail(parts), default)
    ELSE default

\* the walk of SaveData.get over the parts of the path, from current
RECURSIVE get_walk(_, _, _)
get_walk(current, parts, default) ==
    IF Len(parts) = 0 THEN current
    ELSE IF current.t = "dict" /\ HasKey(current, parts[1])
    THEN get_walk(Lookup(current, parts[1]), Tail(parts), default)
    ELSE IF current.t = "node" /\ HasKey(current, parts[1])
    THEN get_walk(Lookup(current, parts[1]), Tail(parts), default)
    ELSE default

\* SaveData.get(path, default) on an object whose _data is d
get(d, path, default) == get_walk(d, Split(path, "."), default)

\* a step from a value of the tree to one of its components: to the value
\* of key k of a mapping, or to element n (counted from 1) of a list
KeyStep(k) == [kind |-> "key", k |-> k, n |-> 0]
IndexStep(n) == [kind |-> "index", k |-> <<>>, n |-> n]

\* the steps that lead from x to the SaveDataNode objects below it
RECURSIVE NodePaths(_)
NodePaths(x) ==
    (IF x.t = "node" THEN {<<>>} ELSE {})
    \cup (IF IsMapping(x)
          THEN UNION {{<<KeyStep(x.items[n].k)>> \o q : q \in NodePaths(x.items[n].v)}
                         : n \in 1..Len(x.items)}
          ELSE IF x.t = "list"
          THEN UNION {{<<IndexStep(n)>> \o q : q \in NodePaths(x.items[n])}
                         : n \in 1..Len(x.items)}
          ELSE {})

\* the component of x the steps of path lead to
RECURSIVE At(_, _)
At(x, path) ==
    IF Len(path) = 0 THEN x
    ELSE IF path[1].kind = "key" THEN At(Lookup(x, path[1].k), Tail(path))
    ELSE At(x.items[path[1].n], Tail(path))

\* SaveDataNode.__setitem__(key, value) and __setattr__(name, value) for a
\* name other than "_data", on the node whose _data is node.items: a dict is
\* stored as a SaveDataNode, any other value as it is
node_set(node, key, value) ==
    DictSet(node, key, IF value.t = "dict" THEN SaveDataNode(value) ELSE value)

\* x after node_set(key, value) on the node the steps of path lead to: the
\* nodes are shared objects, the assignment shows from the root
RECURSIVE SetAt(_, _, _, _)
SetAt(x, path, key, value) ==
    IF Len(path) = 0 THEN node_set(x, key, value)
    ELSE IF path[1].kind = "key"
    THEN [x EXCEPT !.items =
            [n \in 1..Len(x.items) |->
                IF x.items[n].k = path[1].k
                THEN Item(x.items[n].k, SetAt(x.items[n].v, Tail(path), key, value))
                ELSE x.items[n]]]
    ELSE [x EXCEPT !.items[path[1].n] = SetAt(x.items[path[1].n], Tail(path), key, value)]

-----------------------------------------------------------------------------
(* The serializer.                                                         *)

Tabs(n) == [m \in 1..n |-> "\t"]

RECURSIVE ConcatAll(_)
ConcatAll(ss) == IF Len(ss) = 0 THEN <<>> ELSE ss[1] \o ConcatAll(Tail(ss))

RECURSIVE write_data(_, _)
RECURSIVE write_key_value(_, _, _)

\* the text written for element n (counted from 1) of a list value
write_list_item(n, item, indent) ==
    IF IsMapping(item)
    THEN Tabs(indent) \o <<"\t">> \o NatStr(n - 1) \o <<"=", "{", "\n">>
         \o write_data(item, indent + 2)
         \o Tabs(indent) \o <<"\t", "}", "\n">>
    ELSE Tabs(indent) \o <<"\t">> \o NatStr(n - 1) \o <<"=">>
         \o format_value(item) \o <<"\n">>

\* SaveData._write_key_value(file, key, value, indent): the text written
write_key_value(key, value, indent) ==
    IF IsMapping(value)
    THEN Tabs(indent) \o key \o <<"=", "{", "\n">>
         \o write_data(value, indent + 1)
         \o Tabs(indent) \o <<"}", "\n">>
    ELSE IF value.t = "list"
    THEN Tabs(indent) \o key \o <<"=", "{", "\n">>
         \o ConcatAll([n \in 1..Len(value.items) |->
                          write_list_item(n, value.items[n], indent)])
         \o Tabs(indent) \o <<"}", "\n">>
    ELSE Tabs(indent) \o key \o <<"=">> \o format_value(value) \o <<"\n">>

\* SaveData._write_data(file, data, indent): the text written
write_data(d, indent) ==
    IF IsMapping(d)
    THEN ConcatAll([n \in 1..Len(d.items) |->
                      write_key_value(d.items[n].k, d.items[n].v, indent)])
    ELSE <<>>

-----------------------------------------------------------------------------
(* The block parser.                                                       *)

\* looks_like_list with the bug of re.search in place of re.match: the
\* pattern found anywhere in block_str
looks_like_list_search(block_str) ==
    \E p \in 1..Len(block_str) :
        /\ p = 1 \/ block_str[p - 1] \notin Digit
        /\ LET b == RunEnd(block_str, p, Digit)
               c == RunEnd(block_str, b, WS)
           IN  b > p /\ c <= Len(block_str) /\ block_str[c] = "="

\* re.match(r'^\s*\d+\s*=', block_str)
looks_like_list(block_str) ==
    LET a == RunEnd(block_str, 1, WS)
        b == RunEnd(block_str, a, Digit)
        c == RunEnd(block_str, b, WS)
    IN  b > a /\ c <= Len(block_str) /\ block_str[c] = "="

NoMatch == [ok |-> FALSE, group |-> <<>>, end |-> 0]

\* one attempt of r'\d+\s*=\s*([^={}]+|\{[^}]*\})' at position p of s: the
\* greedy runs, the two alternatives in order, then the one step of
\* backtracking that can succeed (the last blank given back to [^={}]+)
match_item(s, p) ==
    LET q == RunEnd(s, p, Digit)
        r == RunEnd(s, q, WS)
        u == RunEnd(s, r + 1, WS)
        v == RunEndNot(s, u, {"=", "{", "}"})
        w == RunEndNot(s, u + 1, {"}"})
    IN  IF ~(q > p /\ r <= Len(s) /\ s[r] = "=") THEN NoMatch
        ELSE IF v > u THEN [ok |-> TRUE, group |-> SubSeq(s, u, v - 1), end |-> v]
        ELSE IF u <= Len(s) /\ s[u] = "{" /\ w <= Len(s)
        THEN [ok |-> TRUE, group |-> SubSeq(s, u, w), end |-> w + 1]
        ELSE IF u > r + 1
        THEN [ok |-> TRUE, group |-> SubSeq(s, u - 1, u - 1), end |-> u]
        ELSE NoMatch

\* re.findall(r'\d+\s*=\s*([^={}]+|\{[^}]*\})', s), scanning from position p
RECURSIVE find_all(_, _)
find_all(s, p) ==
    IF p > Len(s) THEN <<>>
    ELSE IF match_item(s, p).ok
    THEN <<match_item(s, p).group>> \o find_all(s, match_item(s, p).end)
    ELSE find_all(s, p + 1)

\* the list built from a block that looks like a list
list_value(block_str) ==
    LET list_items == find_all(block_str, 1)
    IN  List([n \in 1..Len(list_items) |-> parse_value(Strip(list_items[n]))])

\* the locals of one _parse_block call, at its start
Locals0(ls, start_idx) ==
    [lines |-> ls, i |-> start_idx, brace_count |-> 0, in_block |-> FALSE,
     current_key |-> NoKey, value_buffer |-> <<>>, result |-> Dict(<<>>),
     stopped |-> FALSE]

\* Branch with the bug of a block that ends at the first line with a "}",
\* whatever the depth
Branch_first_close(st) ==
    LET line == Strip(st.lines[st.i + 1])
        bc   == st.brace_count + Count(line, "{") - Count(line, "}")
    IN  IF Len(line) = 0 \/ StartsWith(line, "#") THEN "skip"
        ELSE IF bc < 0 THEN "break"
        ELSE IF Contains(line, "=") /\ ~st.in_block
        THEN (IF EndsWith(Strip(SubSeq(line, Find(line, "=") + 1, Len(line))), "{")
              THEN "open" ELSE "scalar")
        ELSE IF st.in_block
        THEN (IF ~Contains(line, "}") THEN "buffer"
              ELSE IF looks_like_list(Join(Append(st.value_buffer, line), <<" ">>))
              THEN "list" ELSE "dict")
        ELSE "other"

\* what one iteration of the loop does with its line
Branch(st) ==
    LET line == Strip(st.lines[st.i + 1])
        bc   == st.brace_count + Count(line, "{") - Count(line, "}")
    IN  IF Len(line) = 0 \/ StartsWith(line, "#") THEN "skip"
        ELSE IF bc < 0 THEN "break"
        ELSE IF Contains(line, "=") /\ ~st.in_block
        THEN (IF EndsWith(Strip(SubSeq(line, Find(line, "=") + 1, Len(line))), "{")
              THEN "open" ELSE "scalar")
        ELSE IF st.in_block
        THEN (IF bc # 0 THEN "buffer"
              ELSE IF looks_like_list(Join(Append(st.value_buffer, line), <<" ">>))
              THEN "list" ELSE "dict")
        ELSE "other"

RECURSIVE parse_block(_, _)
RECURSIVE loop_body(_)
RECURSIVE run_loop(_)

\* the value of a closed block whose buffer is value_buffer
block_value(buffer) ==
    IF looks_like_list(Join(buffer, <<" ">>))
    THEN list_value(Join(buffer, <<" ">>))
    ELSE parse_block(buffer, 0).result

\* one iteration of the while loop of _parse_block, on the locals st
loop_body(st) ==
    LET line  == Strip(st.lines[st.i + 1])
        bc    == st.brace_count + Count(line, "{") - Count(line, "}")
        eq    == Find(line, "=")
        key   == Strip(SubSeq(line, 1, eq - 1))
        value == Strip(SubSeq(line, eq + 1, Len(line)))
        next  == [st EXCEPT !.i = st.i + 1]
        b     == Branch(st)
    IN  IF b = "skip" THEN next
        ELSE IF b = "break" THEN [next EXCEPT !.brace_count = bc, !.stopped = TRUE]
        ELSE IF b = "open"
        THEN [next EXCEPT !.current_key = key, !.in_block = TRUE,
                          !.brace_count = 1, !.value_buffer = <<>>]
        ELSE IF b = "scalar"
        THEN [next EXCEPT !.brace_count = bc,
                          !.result = DictSet(st.result, key, parse_value(value))]
        ELSE IF b = "buffer"
        THEN [next EXCEPT !.brace_count = bc,
                          !.value_buffer = Append(st.value_buffer, line)]
        ELSE IF b \in {"list", "dict"}
        THEN [next EXCEPT !.brace_count = bc,
                          !.result = DictSet(st.result, st.current_key,
                                       block_value(Append(st.value_buffer, line))),
                          !.in_block = FALSE, !.current_key = NoKey,
                          !.value_buffer = <<>>]
        ELSE [next EXCEPT !.brace_count = bc]

\* the while loop, from the locals st to the locals at the return
run_loop(st) ==
    IF st.i < Len(st.lines) /\ ~st.stopped THEN run_loop(loop_body(st)) ELSE st

\* _parse_block(lines, start_idx): the pair returned
parse_block(ls, start_idx) ==
    LET st == run_loop(Locals0(ls, start_idx))
    IN  [result |-> st.result, i |-> st.i]

-----------------------------------------------------------------------------
(* The inputs: save-file texts and trees.                                  *)

MaxLines == 4      \* the longest text drawn from LineSet, in lines
MaxList == 2       \* the longest list of a drawn tree
MaxAtoms == 3      \* the longest raw token, in atoms

\* the lines the texts are made of
LineSet ==
    { <<"a", "=", "1">>, <<"a", "=", "2">>, <<"b", "=", "x">>,
      <<"a", "=", "{">>, <<"}">>, <<"0", "=", "1">>, <<"1", "=", "2">> }

\* a text nested three deep, with an assignment after a closed block in a
\* nested scope and one in the root scope
NestedExample ==
    <<"a", "=", "{", "\n",
      "\t", "b", "=", "{", "\n",
      "\t", "\t", "c", "=", "{", "\n",
      "\t", "\t", "\t", "d", "=", "1", "\n",
      "\t", "\t", "}", "\n",
      "\t", "\t", "e", "=", "2", "\n",
      "\t", "}", "\n",
      "\t", "f", "=", "x", "\n",
      "}", "\n",
      "g", "=", "n", "o">>

\* the texts of the testable properties of the documentation, two texts
\* with a comment, a blank line, a bare token and indentation, and the
\* nested text
Examples ==
    { NestedExample,
      <<"k", "=", "{", "\n",
        "0", "=", "{", "a", "=", "1", "}", " ", "1", "=", "{", "a", "=", "2", "}", "\n",
        "}">>,
      <<"k", "=", "{", "\n",
        "n", "=", "\"", "I", "q", "\"", " ", "t", "=", "I", "\n",
        "}", "\n">>,
      <<"#", "c", "\n", "\n", "x", "\n", "\t", "a", " ", "=", " ", "N", "o", " ", "\n">>,
      <<"a", "=", "{", "\n", "b", "=", "{", "\n", "c", "=", "1", ".", "5", "\n",
        "}", "\n", "}", "\n", "c", "=", "y", "e", "s">> }

\* the sequences over S of length n
RECURSIVE SeqsOfLen(_, _)
SeqsOfLen(S, n) ==
    IF n = 0 THEN {<<>>}
    ELSE {Append(q, x) : q \in SeqsOfLen(S, n - 1), x \in S}

SeqsUpTo(S, n) == UNION {SeqsOfLen(S, m) : m \in 0..n}

Texts == {Join(ls, <<"\n">>) : ls \in SeqsUpTo(LineSet, MaxLines)} \cup Examples

\* the scalars of the drawn trees
Scalars ==
    << Bool(TRUE), Bool(FALSE), Int_(1), Int_(0 - 20), FloatVal(<<"1", ".", "5">>),
       FloatVal(<<"1", "e", "1", "6">>),
       String(<<"x">>), String(<<"h", " ", "s">>), String(<<>>),
       String(<<"{">>), String(<<"}">>), String(<<"a", "=", "b">>),
       String(<<"7">>) >>

\* the elements of the drawn lists
ListElems ==
    << Int_(1), Int_(2), String(<<"x">>),
       Dict(<<Item(<<"a">>, Int_(1))>>), Dict(<<Item(<<"a">>, Int_(2))>>) >>

\* the values the key "a" of a drawn tree holds: a scalar, a dict of one
\* scalar, an empty dict, a dict in a dict, a list
ValueOf(kind, n, elems) ==
    IF kind = "scalar" THEN Scalars[n]
    ELSE IF kind = "dict" THEN Dict(<<Item(<<"b">>, Scalars[n])>>)
    ELSE IF kind = "empty" THEN Dict(<<>>)
    ELSE IF kind = "deep"
    THEN Dict(<<Item(<<"b">>, Dict(<<Item(<<"a">>, Scalars[n])>>))>>)
    ELSE List([m \in 1..Len(elems) |-> ListElems[elems[m]]])

\* the paths and the default the caller passes to get
Paths ==
    { <<"a">>, <<"b">>, <<"a", ".", "b">>, <<"a", ".", "b", ".", "a">>,
      <<"a", ".">>, <<>>, <<"a", ".", "0">> }
Default == String(<<"D">>)

\* the keys and the values the caller assigns: an int, a raw dict with a
\* raw dict in it, a list of a raw dict, a SaveDataNode
MaxSets == 1       \* the most assignments of one caller
SetKeys == { <<"a">>, <<"c">> }
SetValues ==
    { Int_(5),
      Dict(<<Item(<<"b">>, Dict(<<Item(<<"a">>, Int_(1))>>))>>),
      List(<<Dict(<<Item(<<"a">>, Int_(1))>>)>>),
      Node(<<Item(<<"a">>, String(<<"x">>))>>) }

NoCall == [call |-> "none"]

InitParser ==
    /\ lines = <<>>
    /\ i = 0
    /\ brace_count = 0
    /\ in_block = FALSE
    /\ current_key = NoKey
    /\ value_buffer = <<>>
    /\ result = Dict(<<>>)
    /\ stopped = FALSE
    /\ stack = <<>>
    /\ parsed = NoData
    /\ ret = NoCall
    /\ attrs = Dict(<<>>)
    /\ sets = 0

\* a save file is at hand
InitText ==
    /\ pc = "idle"
    /\ data = NoData
    /\ file \in Texts
    /\ InitParser

\* the caller has built a SaveData from a raw tree
InitTree ==
    /\ pc = "idle"
    /\ file = NoFile
    /\ \E kind \in {"scalar", "dict", "empty", "deep", "list"} :
       \E n \in 1..Len(Scalars) :
       \E elems \in SeqsUpTo(1..Len(ListElems), MaxList) :
       \E second \in BOOLEAN :
          /\ kind \in {"empty", "list"} => n = 1
          /\ kind # "list" => elems = <<>>
          /\ data = SaveData(Dict(<<Item(<<"a">>, ValueOf(kind, n, elems))>>
                       \o (IF second THEN <<Item(<<"b">>, String(<<"x">>))>>
                           ELSE <<>>)))
    /\ InitParser

Init == InitText \/ InitTree

-----------------------------------------------------------------------------
(* The operations.                                                         *)

parser_vars == <<lines, i, brace_count, in_block, current_key, value_buffer,
                 result, stopped, stack>>
caller_vars == <<attrs, sets>>

\* SaveData.save(file_path)
Save ==
    /\ pc = "idle"
    /\ data # NoData
    /\ file' = write_data(data, 0)
    /\ UNCHANGED <<pc, data, parsed, ret>>
    /\ UNCHANGED parser_vars
    /\ UNCHANGED caller_vars

\* SaveData.get(path, default)
Get ==
    /\ pc = "idle"
    /\ data # NoData
    /\ \E path \in Paths :
          ret' = [call |-> "get", path |-> path, default |-> Default,
                  value |-> get(data, path, Default)]
    /\ UNCHANGED <<pc, data, file, parsed>>
    /\ UNCHANGED parser_vars
    /\ UNCHANGED caller_vars

\* the record of an assignment: the node, by the steps to it from the root
SetCall(style, path, key, value, raised) ==
    [call |-> "set", style |-> style, node |-> path, key |-> key,
     value |-> value, raised |-> raised]

\* node[key] = value on a SaveDataNode of the tree: SaveDataNode.__setitem__
SetItem ==
    /\ pc = "idle"
    /\ data # NoData
    /\ sets < MaxSets
    /\ \E path \in NodePaths(data), key \in SetKeys, value \in SetValues :
          /\ data' = SetAt(data, path, key, value)
          /\ ret' = SetCall("item", path, key, value, "no")
    /\ sets' = sets + 1
    /\ UNCHANGED <<pc, file, parsed, attrs>>
    /\ UNCHANGED parser_vars

\* node.key = value on a SaveDataNode of the tree: SaveDataNode.__setattr__
SetAttr ==
    /\ pc = "idle"
    /\ data # NoData
    /\ sets < MaxSets
    /\ \E path \in NodePaths(data), key \in SetKeys, value \in SetValues :
          /\ data' = SetAt(data, path, key, value)
          /\ ret' = SetCall("attr", path, key, value, "no")
    /\ sets' = sets + 1
    /\ UNCHANGED <<pc, file, parsed, attrs>>
    /\ UNCHANGED parser_vars

\* save_data[key] = value on the root: SaveData defines no __setitem__, the
\* statement raises TypeError
RootSetItem ==
    /\ pc = "idle"
    /\ data # NoData
    /\ sets < MaxSets
    /\ \E key \in SetKeys, value \in SetValues :
          ret' = SetCall("item", <<>>, key, value, "TypeError")
    /\ sets' = sets + 1
    /\ UNCHANGED <<pc, data, file, parsed, attrs>>
    /\ UNCHANGED parser_vars

\* save_data.key = value on the root: SaveData defines no __setattr__, the
\* value becomes an instance attribute of the object and _data is left as
\* it is
RootSetAttr ==
    /\ pc = "idle"
    /\ data # NoData
    /\ sets < MaxSets
    /\ \E key \in SetKeys, value \in SetValues :
          /\ attrs' = DictSet(attrs, key, value)
          /\ ret' = SetCall("attr", <<>>, key, value, "no")
    /\ sets' = sets + 1
    /\ UNCHANGED <<pc, data, file, parsed>>
    /\ UNCHANGED parser_vars

\* parse_save_file(file_path) up to the first iteration of _parse_block
ParseSaveFile ==
    /\ pc = "idle"
    /\ file # NoFile
    /\ pc' = "parse"
    /\ lines' = Split(file, "\n")
    /\ i' = 0
    /\ brace_count' = 0
    /\ in_block' = FALSE
    /\ current_key' = NoKey
    /\ value_buffer' = <<>>
    /\ result' = Dict(<<>>)
    /\ stopped' = FALSE
    /\ stack' = <<>>
    /\ UNCHANGED <<data, file, parsed, ret>>
    /\ UNCHANGED caller_vars

\* the locals of the running _parse_block call
Locals ==
    [lines |-> lines, i |-> i, brace_count |-> brace_count,
     in_block |-> in_block, current_key |-> current_key,
     value_buffer |-> value_buffer, result |-> result, stopped |-> stopped]

\* one iteration of the loop of the root _parse_block call
Iteration ==
    /\ pc = "parse"
    /\ i < Len(lines)
    /\ ~stopped
    /\ \E st \in {loop_body(Locals)} :
           /\ i' = st.i
           /\ brace_count' = st.brace_count
           /\ in_block' = st.in_block
           /\ current_key' = st.current_key
           /\ value_buffer' = st.value_buffer
           /\ result' = st.result
           /\ stopped' = st.stopped
    /\ UNCHANGED <<pc, data, file, lines, stack, parsed, ret>>
    /\ UNCHANGED caller_vars

\* the iteration, by what it does with its line
SkipLine ==
    /\ pc = "parse" /\ i < Len(lines) /\ Branch(Locals) = "skip"
    /\ Iteration
EndOfBlock ==
    /\ pc = "parse" /\ i < Len(lines) /\ Branch(Locals) = "break"
    /\ Iteration
OpenBlock ==
    /\ pc = "parse" /\ i < Len(lines) /\ Branch(Locals) = "open"
    /\ Iteration
AssignScalar ==
    /\ pc = "parse" /\ i < Len(lines) /\ Branch(Locals) = "scalar"
    /\ Iteration
BufferLine ==
    /\ pc = "parse" /\ i < Len(lines) /\ Branch(Locals) = "buffer"
    /\ Iteration
CloseList ==
    /\ pc = "parse" /\ i < Len(lines) /\ Branch(Locals) = "list"
    /\ Iteration
CloseMapping ==
    /\ pc = "parse" /\ i < Len(lines) /\ Branch(Locals) = "dict"
    /\ Iteration
OtherLine ==
    /\ pc = "parse" /\ i < Len(lines) /\ Branch(Locals) = "other"
    /\ Iteration

\* the return of the root _parse_block call and of parse_save_file
ParseReturn ==
    /\ pc = "parse"
    /\ stack = <<>>
    /\ i >= Len(lines) \/ stopped
    /\ pc' = "done"
    /\ parsed' = SaveData(result)
    /\ UNCHANGED <<data, file, ret>>
    /\ UNCHANGED parser_vars
    /\ UNCHANGED caller_vars

Next ==
    \/ Save
    \/ Get
    \/ ParseSaveFile
    \/ SkipLine
    \/ EndOfBlock
    \/ OpenBlock
    \/ AssignScalar
    \/ BufferLine
    \/ CloseList
    \/ CloseMapping
    \/ OtherLine
    \/ ParseReturn

Spec == Init /\ [][Next]_vars

-----------------------------------------------------------------------------
(* The scalar coercer alone: _parse_value on raw tokens.                   *)

\* the pieces the raw tokens are made of
Atoms ==
    { <<"1">>, <<"0">>, <<"-">>, <<"+">>, <<".">>, <<"_">>, <<"a">>,
      <<"y", "e", "s">>, <<"N", "o">>, <<"\"">> }

Tokens == {ConcatAll(q) : q \in SeqsUpTo(Atoms, MaxAtoms)}

InitCoerce ==
    /\ pc = "coerce"
    /\ data = NoData
    /\ file = NoFile
    /\ InitParser

\* a call _parse_value(value_str)
ParseValueCall ==
    /\ pc = "coerce"
    /\ \E tok \in Tokens :
          ret' = [call |-> "parse_value", arg |-> tok, value |-> parse_value(tok)]
    /\ UNCHANGED <<pc, data, file, parsed>>
    /\ UNCHANGED parser_vars
    /\ UNCHANGED caller_vars

SpecCoerce == InitCoerce /\ [][ParseValueCall]_vars

-----------------------------------------------------------------------------
(* The tree model under assignment: a caller that builds a SaveData,       *)
(* assigns to keys of its nodes and of its root, and saves.                *)

NextSet ==
    \/ SetItem
    \/ SetAttr
    \/ RootSetItem
    \/ RootSetAttr
    \/ Save

SpecSet == InitTree /\ [][NextSet]_vars

-----------------------------------------------------------------------------
(* The block parser with its recursion call by call: the call made for a   *)
(* nested block is a step, the iterations of the nested call are steps,    *)
(* and its return is a step.                                               *)

MaxCallLines == 6  \* the longest text drawn from CallLines, in lines

\* the lines the texts are made of: nesting, balanced or not
CallLines == { <<"a", "=", "1">>, <<"a", "=", "{">>, <<"}">> }

CallTexts ==
    {Join(ls, <<"\n">>) : ls \in SeqsUpTo(CallLines, MaxCallLines)} \cup Examples

InitCall ==
    /\ pc = "idle"
    /\ data = NoData
    /\ file \in CallTexts
    /\ InitParser

\* Call with the bug of a recursion on the lines of the caller
Call_on_lines ==
    /\ pc = "parse" /\ i < Len(lines) /\ ~stopped /\ Branch(Locals) = "dict"
    /\ stack' = Append(stack, [Locals EXCEPT !.i = i + 1])
    /\ i' = 0
    /\ brace_count' = 0
    /\ in_block' = FALSE
    /\ current_key' = NoKey
    /\ value_buffer' = <<>>
    /\ result' = Dict(<<>>)
    /\ stopped' = FALSE
    /\ UNCHANGED <<pc, data, file, lines, parsed, ret>>
    /\ UNCHANGED caller_vars

\* the iteration that closes a nested block: the call
\* _parse_block(value_buffer, 0), the caller waiting for it
Call ==
    /\ pc = "parse" /\ i < Len(lines) /\ ~stopped /\ Branch(Locals) = "dict"
    /\ LET line == Strip(lines[i + 1])
           bc   == brace_count + Count(line, "{") - Count(line, "}")
           callee == Locals0(Append(value_buffer, line), 0)
       IN  /\ stack' = Append(stack, [Locals EXCEPT
                                         !.i = i + 1, !.brace_count = bc,
                                         !.value_buffer = Append(value_buffer, line)])
           /\ lines' = callee.lines
           /\ i' = callee.i
           /\ brace_count' = callee.brace_count
           /\ in_block' = callee.in_block
           /\ current_key' = callee.current_key
           /\ value_buffer' = callee.value_buffer
           /\ result' = callee.result
           /\ stopped' = callee.stopped
    /\ UNCHANGED <<pc, data, file, parsed, ret>>
    /\ UNCHANGED caller_vars

\* the return of a nested call: the caller assigns the Mapping returned and
\* leaves the block
Return ==
    /\ pc = "parse"
    /\ stack # <<>>
    /\ i >= Len(lines) \/ stopped
    /\ LET caller == stack[Len(stack)]
       IN  /\ lines' = caller.lines
           /\ i' = caller.i
           /\ brace_count' = caller.brace_count
           /\ result' = DictSet(caller.result, caller.current_key, result)
           /\ in_block' = FALSE
           /\ current_key' = NoKey
           /\ value_buffer' = <<>>
           /\ stopped' = caller.stopped
    /\ stack' = SubSeq(stack, 1, Len(stack) - 1)
    /\ UNCHANGED <<pc, data, file, parsed, ret>>
    /\ UNCHANGED caller_vars

\* the iterations of the loop of the running call
LoopStep ==
    \/ SkipLine
    \/ EndOfBlock
    \/ OpenBlock
    \/ AssignScalar
    \/ BufferLine
    \/ CloseList
    \/ Call
    \/ OtherLine

\* the steps of a running parse
ParserStep ==
    \/ LoopStep
    \/ Return
    \/ ParseReturn

NextCall ==
    \/ ParseSaveFile
    \/ ParserStep

\* the running call has a line left
InLoop == pc = "parse" /\ i < Len(lines) /\ ~stopped

\* a running parse has a step to take that changes the state, by the
\* guards of the steps: in the loop the branch of the line, which moves to
\* the next line, and after the loop the return
ParserStepEnabled ==
    /\ InLoop =>
          /\ Branch(Locals) \in {"skip", "break", "open", "scalar", "buffer",
                                 "list", "dict", "other"}
          /\ loop_body(Locals).i = i + 1
    /\ (pc = "parse" /\ ~InLoop) =>
          IF stack = <<>> THEN ENABLED <<ParseReturn>>_vars
          ELSE ENABLED <<Return>>_vars

\* the loop of a call that was made runs, the interpreter executes its next
\* statement: weak fairness of LoopStep, WF_vars(LoopStep), written with
\* the enabling condition InLoop of LoopStep
LoopRuns == []<>(~InLoop) \/ []<><<LoopStep>>_vars

\* and a call whose loop has ended returns
SpecCall ==
    /\ InitCall /\ [][NextCall]_vars
    /\ LoopRuns
    /\ WF_vars(Return)
    /\ WF_vars(ParseReturn)

-----------------------------------------------------------------------------
(* Notions the properties are stated with.                                 *)

\* the outcome "parse failed with a SyntaxError"
SyntaxError == [t |-> "SyntaxError"]

\* the lines of the text as the format reads them: trimmed, without the
\* blank lines and the full-line comments
RECURSIVE CleanLines(_)
CleanLines(ls) ==
    IF Len(ls) = 0 THEN <<>>
    ELSE IF Len(Strip(ls[1])) = 0 \/ StartsWith(Strip(ls[1]), "#")
    THEN CleanLines(Tail(ls))
    ELSE <<Strip(ls[1])>> \o CleanLines(Tail(ls))

NoBrace(l) == ~Contains(l, "{") /\ ~Contains(l, "}")

\* "key={", "key=value" without braces, and "}"
IsOpenerLine(l) ==
    /\ Len(l) >= 2
    /\ l[Len(l)] = "{"
    /\ Contains(SubSeq(l, 1, Len(l) - 1), "=")
    /\ NoBrace(SubSeq(l, 1, Len(l) - 1))
    /\ StripSet(SubSeq(l, Find(l, "=") + 1, Len(l)), WS) = <<"{">>
IsScalarLine(l) == Contains(l, "=") /\ NoBrace(l)
IsCloserLine(l) == l = <<"}">>

KeyOf(l) == Strip(SubSeq(l, 1, Find(l, "=") - 1))
ValueTextOf(l) == Strip(SubSeq(l, Find(l, "=") + 1, Len(l)))

\* the nesting depth after the first n lines of cl
RECURSIVE DepthAfter(_, _)
DepthAfter(cl, n) ==
    IF n = 0 THEN 0
    ELSE DepthAfter(cl, n - 1)
         + (IF IsOpenerLine(cl[n]) THEN 1 ELSE IF IsCloserLine(cl[n]) THEN 0 - 1 ELSE 0)

\* every line is an opener, a scalar assignment or a closer, and the braces
\* are balanced
WellFormed(cl) ==
    /\ \A n \in 1..Len(cl) :
          IsOpenerLine(cl[n]) \/ IsScalarLine(cl[n]) \/ IsCloserLine(cl[n])
    /\ \A n \in 1..Len(cl) : DepthAfter(cl, n) >= 0
    /\ DepthAfter(cl, Len(cl)) = 0

-----------------------------------------------------------------------------
(* C1 .. C6: statements the code does not meet.                            *)

\* no string value of the tree is purely digits
RECURSIVE NoDigitString(_)
NoDigitString(x) ==
    IF x.t = "str" THEN ~(Len(x.v) > 0 /\ \A n \in 1..Len(x.v) : x.v[n] \in Digit)
    ELSE IF IsMapping(x) THEN \A n \in 1..Len(x.items) : NoDigitString(x.items[n].v)
    ELSE IF x.t = "list" THEN \A n \in 1..Len(x.items) : NoDigitString(x.items[n])
    ELSE TRUE

\* C1: round-trip stability. For every tree of Mappings, Sequences and
\* Scalars without a string value that is purely digits, parsing the text
\* that save wrote for the tree returns a tree structurally equal to it.
C1_RoundTrip ==
    (/\ pc = "done"
     /\ data # NoData
     /\ file = write_data(data, 0)
     /\ NoDigitString(data))
    => convert_to_raw(parsed) = convert_to_raw(data)

\* the number of block openers still open at the end of cl, a closer
\* closing the innermost open block
RECURSIVE OpenAtEnd(_, _)
OpenAtEnd(cl, n) ==
    IF n = 0 THEN 0
    ELSE IF IsOpenerLine(cl[n]) THEN OpenAtEnd(cl, n - 1) + 1
    ELSE IF IsCloserLine(cl[n]) /\ OpenAtEnd(cl, n - 1) > 0 THEN OpenAtEnd(cl, n - 1) - 1
    ELSE OpenAtEnd(cl, n - 1)

\* C2: parsing a text with a block-opening "{" that has no corresponding
\* "}" before the end of the input fails with a SyntaxError; no tree is
\* returned.
C2_UnmatchedOpenFails ==
    (/\ pc = "done"
     /\ OpenAtEnd(CleanLines(lines), Len(CleanLines(lines))) > 0)
    => parsed = SyntaxError

\* C3: when a closing brace drives the brace depth of the root scope
\* negative, parse reports a syntax error; it does not return the Mapping
\* built so far.
C3_NegativeDepthFails ==
    (pc = "done" /\ brace_count < 0) => parsed = SyntaxError

\* the list value of a tree is a non-empty list of Mappings
IsListOfMappings(x) ==
    /\ x.t = "list"
    /\ Len(x.items) > 0
    /\ \A n \in 1..Len(x.items) : IsMapping(x.items[n])

ListOfBlocksExample ==
    <<"k", "=", "{", "\n",
      "0", "=", "{", "a", "=", "1", "}", " ", "1", "=", "{", "a", "=", "2", "}", "\n",
      "}">>

\* C4: a closed block whose content is positional with brace-delimited
\* elements parses as a Sequence of one Mapping per element, in order, each
\* with the element's key/value pairs: the block "0={a=1} 1={a=2}" as the
\* Mappings a -> 1 and a -> 2, and the block save writes for a list of
\* Mappings (one token per line) as that list.
C4_ListOfMappings ==
    pc = "done" =>
        /\ file = ListOfBlocksExample =>
              /\ HasKey(result, <<"k">>)
              /\ Lookup(result, <<"k">>) =
                    List(<<Dict(<<Item(<<"a">>, Int_(1))>>),
                           Dict(<<Item(<<"a">>, Int_(2))>>)>>)
        /\ (/\ data # NoData
            /\ file = write_data(data, 0)
            /\ IsListOfMappings(Lookup(data, <<"a">>))) =>
              /\ HasKey(result, <<"a">>)
              /\ Lookup(result, <<"a">>) = convert_to_raw(Lookup(data, <<"a">>))

\* "index = token", the token a bare scalar
IsIndexEntry(l) ==
    /\ IsScalarLine(l)
    /\ Len(KeyOf(l)) > 0
    /\ \A n \in 1..Len(KeyOf(l)) : KeyOf(l)[n] \in Digit
    /\ Len(ValueTextOf(l)) > 0
    /\ \A n \in 1..Len(ValueTextOf(l)) : ValueTextOf(l)[n] \notin WS \cup {"=", "\""}

\* the text is one closed positional block of n >= 1 entries
IsPositionalBlock(cl) ==
    /\ Len(cl) >= 3
    /\ IsOpenerLine(cl[1])
    /\ IsCloserLine(cl[Len(cl)])
    /\ \A n \in 2..(Len(cl) - 1) : IsIndexEntry(cl[n])

\* C5: a closed positional block of n >= 1 entries "index = token" with bare
\* scalar tokens parses as the Sequence of exactly n values, the i-th the
\* coercion of the i-th token.
C5_ListOfScalars ==
    (pc = "done" /\ IsPositionalBlock(CleanLines(lines))) =>
        LET cl == CleanLines(lines)
        IN  /\ HasKey(result, KeyOf(cl[1]))
            /\ Lookup(result, KeyOf(cl[1])) =
                  List([n \in 1..(Len(cl) - 2) |-> parse_value(ValueTextOf(cl[n + 1]))])

\* a base-10 integer with an optional leading "-"
IsPlainInt(t) ==
    LET ds == IF Len(t) > 0 /\ t[1] = "-" THEN Tail(t) ELSE t
    IN  Len(ds) > 0 /\ \A n \in 1..Len(ds) : ds[n] \in Digit

PlainIntValue(t) ==
    IF t[1] = "-" THEN 0 - DecValue(Tail(t)) ELSE DecValue(t)

\* the precedence of the documentation on the stripped token t
ExpectedScalar(t) ==
    IF Contains(t, ".") /\ FloatOk(t) THEN FloatVal(t)
    ELSE IF IsPlainInt(t) THEN Int_(PlainIntValue(t))
    ELSE IF Lower(t) = <<"y", "e", "s">> THEN Bool(TRUE)
    ELSE IF Lower(t) = <<"n", "o">> THEN Bool(FALSE)
    ELSE String(t)

\* C6: for the token t left by the stripping of the quotes, the coercer
\* returns a float if t holds "." and parses as a decimal number, else an
\* integer if t is entirely a base-10 integer with an optional leading "-",
\* else a boolean for yes/no in any case, else the string t.
C6_Precedence ==
    ret.call = "parse_value" =>
        ret.value = ExpectedScalar(StripSet(ret.arg, {"\""}))

-----------------------------------------------------------------------------
(* C7 .. C10: statements that hold.                                        *)

\* line n of the well-formed cl is an assignment of the root scope
IsTopAssign(cl, n) ==
    /\ IsScalarLine(cl[n]) \/ IsOpenerLine(cl[n])
    /\ DepthAfter(cl, n - 1) = 0

TopAssigns(cl) == {n \in 1..Len(cl) : IsTopAssign(cl, n)}

\* the line closing the block opened at line n
BlockEnd(cl, n) ==
    CHOOSE m \in (n + 1)..Len(cl) :
        /\ DepthAfter(cl, m) = DepthAfter(cl, n) - 1
        /\ \A j \in (n + 1)..(m - 1) : DepthAfter(cl, j) >= DepthAfter(cl, n)

\* the value the assignment at line n gives its key
AssignedValue(cl, n) ==
    IF IsScalarLine(cl[n]) THEN parse_value(ValueTextOf(cl[n]))
    ELSE block_value(SubSeq(cl, n + 1, BlockEnd(cl, n)))

FirstAssign(cl, k) ==
    CHOOSE n \in TopAssigns(cl) :
        KeyOf(cl[n]) = k /\ \A m \in TopAssigns(cl) : KeyOf(cl[m]) = k => n <= m
LastAssign(cl, k) ==
    CHOOSE n \in TopAssigns(cl) :
        KeyOf(cl[n]) = k /\ \A m \in TopAssigns(cl) : KeyOf(cl[m]) = k => n >= m

\* C7: duplicate key policy. After parsing the assignments of one scope each
\* key appears exactly once in the Mapping, with the value of the last
\* assignment to it (scalar or block), the keys in the order of their first
\* assignments.
C7_LastWriteWins ==
    (pc = "done" /\ WellFormed(CleanLines(lines))) =>
        LET cl == CleanLines(lines)
            n_keys == Len(result.items)
        IN  /\ \A p, q \in 1..n_keys :
                  result.items[p].k = result.items[q].k => p = q
            /\ {result.items[p].k : p \in 1..n_keys}
                  = {KeyOf(cl[n]) : n \in TopAssigns(cl)}
            /\ \A p \in 1..n_keys :
                  result.items[p].v
                     = AssignedValue(cl, LastAssign(cl, result.items[p].k))
            /\ \A p, q \in 1..n_keys :
                  p < q => FirstAssign(cl, result.items[p].k)
                              < FirstAssign(cl, result.items[q].k)

\* a key assigned twice, with different values, another key in between
C7_Witness ==
    /\ pc = "done"
    /\ WellFormed(CleanLines(lines))
    /\ LET cl == CleanLines(lines)
       IN  \E n, j, m \in TopAssigns(cl) :
              /\ n < j /\ j < m
              /\ KeyOf(cl[n]) = KeyOf(cl[m])
              /\ KeyOf(cl[j]) # KeyOf(cl[n])
              /\ AssignedValue(cl, n) # AssignedValue(cl, m)
              /\ IsOpenerLine(cl[n]) \/ IsOpenerLine(cl[m])

\* s starts with optional whitespace, one or more digits, optional
\* whitespace and "="
NumericStart(s) ==
    \E a \in 0..Len(s) : \E b \in (a + 1)..Len(s) : \E c \in (b + 1)..Len(s) :
        /\ \A n \in 1..a : s[n] \in WS
        /\ \A n \in (a + 1)..b : s[n] \in Digit
        /\ \A n \in (b + 1)..(c - 1) : s[n] \in WS
        /\ s[c] = "="

\* C8: disambiguation rule. A block that closes is given a Sequence if and
\* only if its joined buffered content starts with optional whitespace,
\* digits, optional whitespace and "="; every other block is given the
\* Mapping of a recursive block parser call on its buffer.
C8_Disambiguation ==
    [][(pc = "parse" /\ in_block /\ ~in_block') =>
          LET buffer == Append(value_buffer, Strip(lines[i + 1]))
              value == Lookup(result', current_key)
          IN  /\ HasKey(result', current_key)
              /\ NumericStart(Join(buffer, <<" ">>)) => value.t = "list"
              /\ ~NumericStart(Join(buffer, <<" ">>)) =>
                    value.t = "dict" /\ value = parse_block(buffer, 0).result]_vars

\* a block whose first key is numeric and whose later key is not, parsed as
\* a Sequence
C8_Witness ==
    /\ pc = "done"
    /\ CleanLines(lines) = << <<"a", "=", "{">>, <<"0", "=", "1">>,
                              <<"b", "=", "x">>, <<"}">> >>
    /\ Lookup(result, <<"a">>).t = "list"

HasPrefix(s, pre) == Len(s) >= Len(pre) /\ SubSeq(s, 1, Len(pre)) = pre

\* a decimal numeral: digits with a "." or an exponent, optionally signed
IsDecimalNumeral(t) ==
    /\ FloatOk(t)
    /\ Contains(t, ".") \/ Contains(t, "e")
    /\ \A n \in 1..Len(t) : t[n] \in Digit \cup {".", "e", "+", "-"}

\* the text the documentation asks for the scalar v
IsFormatOf(text, v) ==
    IF v.t = "bool" THEN text = (IF v.v THEN <<"y", "e", "s">> ELSE <<"n", "o">>)
    ELSE IF v.t = "str"
    THEN (IF Len(v.v) = 0 \/ \E n \in 1..Len(v.v) : v.v[n] \in WS \cup {"{", "}", "="}
          THEN text = <<"\"">> \o v.v \o <<"\"">>
          ELSE text = v.v)
    ELSE IF v.t = "int" THEN IsPlainInt(text) /\ PlainIntValue(text) = v.v
    ELSE IsDecimalNumeral(text) /\ FloatVal(text) = v

\* a line of ls is "key=text" at the depth, text the format of v
HasEntryLine(ls, depth, k, v) ==
    \E n \in 1..Len(ls) :
        /\ HasPrefix(ls[n], Tabs(depth) \o k \o <<"=">>)
        /\ IsFormatOf(SubSeq(ls[n], depth + Len(k) + 2, Len(ls[n])), v)

\* every scalar entry of the Mapping d, and of the Mappings below it, has
\* its line in ls
RECURSIVE EntriesWritten(_, _, _)
EntriesWritten(d, depth, ls) ==
    \A n \in 1..Len(d.items) :
        LET e == d.items[n]
        IN  IF IsScalar(e.v) THEN HasEntryLine(ls, depth, e.k, e.v)
            ELSE IF IsMapping(e.v) THEN EntriesWritten(e.v, depth + 1, ls)
            ELSE \A m \in 1..Len(e.v.items) :
                    IsMapping(e.v.items[m]) =>
                        EntriesWritten(e.v.items[m], depth + 2, ls)

\* C9: serializer scalar formatting. For every Mapping entry with a scalar
\* value the serializer writes key=value, a boolean as yes/no, a string in
\* double quotes if and only if it is empty or holds whitespace, "{", "}"
\* or "=", a number in its decimal text form.
C9_ScalarFormat ==
    [][file' # file => EntriesWritten(data, 0, Split(file', "\n"))]_vars

\* a string with a space was written in quotes, one without as it is
C9_Witness ==
    /\ data # NoData
    /\ file = write_data(data, 0)
    /\ Lookup(data, <<"a">>) = String(<<"h", " ", "s">>)
    /\ HasKey(data, <<"b">>)
    /\ \E n \in 1..Len(Split(file, "\n")) :
          Split(file, "\n")[n] = <<"a", "=", "\"", "h", " ", "s", "\"">>
    /\ \E n \in 1..Len(Split(file, "\n")) :
          Split(file, "\n")[n] = <<"b", "=", "x">>

Missing == [t |-> "missing"]

\* the node reached from x by the first n segments, Missing when a segment
\* is not a key of a Mapping on the way
RECURSIVE Follow(_, _, _)
Follow(x, segments, n) ==
    IF n = 0 THEN x
    ELSE LET prev == Follow(x, segments, n - 1)
         IN  IF prev # Missing /\ IsMapping(prev) /\ HasKey(prev, segments[n])
             THEN Lookup(prev, segments[n])
             ELSE Missing

\* C10: path-based get never raises: it returns the value reached by
\* following the dot-separated segments as keys through nested Mappings, and
\* the caller's default when a segment is missing or the node is not a
\* Mapping; the tree is unchanged.
C10_GetTotal ==
    [][(ret' # ret /\ ret'.call = "get") =>
          LET segments == Split(ret'.path, ".")
              reached == Follow(data, segments, Len(segments))
          IN  /\ ret'.value = (IF reached = Missing THEN ret'.default ELSE reached)
              /\ data' = data]_vars

\* get("a.b") through a scalar and through a list gave the default, and
\* through a Mapping the value
C10_Witness ==
    /\ ret.call = "get"
    /\ ret.path = <<"a", ".", "b">>
    /\ Lookup(data, <<"a">>).t = "list"
    /\ ret.value = ret.default

-----------------------------------------------------------------------------
(* C11: assignment to a key of a node.                                     *)

\* the tree representation of an assigned value: a raw mapping wrapped at
\* every depth, any other value itself
Wrapped(value) == IF value.t = "dict" THEN SaveDataNode(value) ELSE value

\* x without the entry of key in the mapping the steps of path lead to
RECURSIVE WithoutEntry(_, _, _)
WithoutEntry(x, path, key) ==
    IF Len(path) = 0
    THEN [x EXCEPT !.items = SelectSeq(x.items, LAMBDA e : e.k # key)]
    ELSE IF path[1].kind = "key"
    THEN [x EXCEPT !.items =
            [n \in 1..Len(x.items) |->
                IF x.items[n].k = path[1].k
                THEN Item(x.items[n].k, WithoutEntry(x.items[n].v, Tail(path), key))
                ELSE x.items[n]]]
    ELSE [x EXCEPT !.items[path[1].n] = WithoutEntry(x.items[path[1].n], Tail(path), key)]

\* t occurs in s as a run of consecutive characters
IsInfix(t, s) ==
    \E p \in 0..(Len(s) - Len(t)) : SubSeq(s, p + 1, p + Len(t)) = t

\* the assignment c, made on the tree before, left the tree after
SetDone(c, before, after) ==
    /\ c.raised = "no"
    /\ HasKey(At(after, c.node), c.key)
    /\ Lookup(At(after, c.node), c.key) = Wrapped(c.value)
    /\ WithoutEntry(after, c.node, c.key) = WithoutEntry(before, c.node, c.key)
    /\ HasKey(At(convert_to_raw(after), c.node), c.key)
    /\ Lookup(At(convert_to_raw(after), c.node), c.key) = convert_to_raw(c.value)
    /\ IsInfix(write_key_value(c.key, Wrapped(c.value), Len(c.node)),
               write_data(after, 0))

\* C11: set(node, key, value) on any node of the tree, the root included,
\* replaces or inserts the entry: afterwards keyed access to key on that
\* node returns value (a raw mapping wrapped at every depth), every other
\* entry of the tree is unchanged, and the export and the text save writes
\* for the root show the new value.
C11_Set ==
    [][sets' # sets => SetDone(ret', data, data')]_vars

-----------------------------------------------------------------------------
(* C12: nested blocks.                                                     *)

\* the key of the assignment l is not a number
NonNumericKey(l) ==
    ~(Len(KeyOf(l)) > 0 /\ \A n \in 1..Len(KeyOf(l)) : KeyOf(l)[n] \in Digit)

\* well-formed, and every key non-numeric
Nestable(cl) ==
    /\ WellFormed(cl)
    /\ \A n \in 1..Len(cl) : IsCloserLine(cl[n]) \/ NonNumericKey(cl[n])

\* the Mapping that mirrors the nesting of the lines lo..hi of cl, a scope
\* of a well-formed text, added to acc: a scalar assignment gives its key
\* the coerced value, a block the Mapping of the lines between its opener
\* and the matching closer
RECURSIVE Mirror(_, _, _, _)
Mirror(cl, lo, hi, acc) ==
    IF lo > hi THEN acc
    ELSE IF IsScalarLine(cl[lo])
    THEN Mirror(cl, lo + 1, hi,
                DictSet(acc, KeyOf(cl[lo]), parse_value(ValueTextOf(cl[lo]))))
    ELSE Mirror(cl, BlockEnd(cl, lo) + 1, hi,
                DictSet(acc, KeyOf(cl[lo]),
                        Mirror(cl, lo + 1, BlockEnd(cl, lo) - 1, Dict(<<>>))))

\* C12: nested blocks at arbitrary depth. For a well-formed text with every
\* opener, scalar assignment and closer on its own line, non-numeric keys
\* and no brace in a value, parse returns the Mapping tree that mirrors the
\* brace nesting at every depth: a block key maps to the Mapping of exactly
\* the assignments between its opener and its matching closer, and the
\* assignments after a closed block are assigned in the scope of the block.
C12_Nested ==
    (pc = "done" /\ Nestable(CleanLines(lines))) =>
        LET cl == CleanLines(lines)
        IN  /\ result = Mirror(cl, 1, Len(cl), Dict(<<>>))
            /\ convert_to_raw(parsed) = result

\* the text nested three deep was parsed: e follows the closed block c in
\* the scope of b, f the closed block b in the scope of a, g the closed
\* block a in the root scope
C12_Witness ==
    /\ pc = "done"
    /\ file = NestedExample
    /\ Nestable(CleanLines(lines))
    /\ result =
          Dict(<<Item(<<"a">>,
                   Dict(<<Item(<<"b">>,
                            Dict(<<Item(<<"c">>, Dict(<<Item(<<"d">>, Int_(1))>>)),
                                   Item(<<"e">>, Int_(2))>>)),
                          Item(<<"f">>, String(<<"x">>))>>)),
                 Item(<<"g">>, Bool(FALSE))>>)

-----------------------------------------------------------------------------
(* C13: termination of the block parser.                                   *)

\* an iteration of the running call consumes one line
IndexIncreases ==
    (pc = "parse" /\ pc' = "parse" /\ Len(stack') = Len(stack))
        => (i' = i + 1 /\ lines' = lines)

\* a recursive call is made by an iteration that consumed one line of the
\* caller, on a buffer of strictly fewer lines than the caller has
CallShrinks ==
    Len(stack') = Len(stack) + 1
        => /\ stack'[Len(stack')].i = i + 1
           /\ stack'[Len(stack')].lines = lines
           /\ i' = 0
           /\ Len(lines') < Len(lines)

\* the caller goes on from the line after the block
ReturnResumes ==
    Len(stack') = Len(stack) - 1
        => /\ i' = stack[Len(stack)].i
           /\ lines' = stack[Len(stack)].lines

\* C13: termination. The block parser terminates on every finite sequence
\* of lines, balanced or not: the line index increases by one on every
\* iteration of the loop, every recursive call is made on a buffer of
\* strictly fewer lines than the lines of the calling invocation, the depth
\* of the recursion is at most the number of lines, a running parse has a
\* step to take, and a parse that was started returns.
C13_Termination ==
    /\ []ParserStepEnabled
    /\ [][IndexIncreases /\ CallShrinks /\ ReturnResumes]_vars
    /\ [](pc = "parse" => Len(stack) <= Len(Split(file, "\n")))
    /\ (pc = "parse" ~> pc = "done")

\* the text nested three deep was parsed to its end, through three
\* recursive calls, with the result of the recursion taken as one step
C13_Witness ==
    /\ pc = "done"
    /\ file = NestedExample
    /\ stack = <<>>
    /\ i = Len(lines)
    /\ HasKey(Lookup(Lookup(result, <<"a">>), <<"b">>), <<"c">>)
    /\ result = parse_block(Split(file, "\n"), 0).result

=============================================================================
